---- MODULE Spec2Model ----
(***************************************************************************)
(* A model of volatility/framework/plugins/windows/netscan.py: the choice  *)
(* of the tcpip symbol file from the kernel version                        *)
(* (NetScan.determine_tcpip_version) and the lazy record generator         *)
(* (NetScan._generator) that filters, classifies and renders the objects   *)
(* found by the pool scan.                                                 *)
(***************************************************************************)
EXTENDS Integers, Sequences, FiniteSets, TLC

VARIABLES
    layer_is_intel,       \* isinstance(virtual_layer, layers.intel.Intel)
    has_KdVersionBlock,   \* ntkrnlmp.get_symbol("KdVersionBlock") resolves
    is_64bit,             \* symbols.symbol_table_is_64bit(...)
    NtMajorVersion,       \* kuser.NtMajorVersion
    NtMinorVersion,       \* kuser.NtMinorVersion
    vers_MinorVersion,    \* vers.MinorVersion (the build number)
    show_corrupt_results, \* self.config.get('include-corrupt', None)
    pc,                   \* position of the generator
    version,              \* what determine_tcpip_version returned or raised
    netscan_symbol_table, \* local of _generator
    netw_obj,             \* loop variable of _generator
    socks,                \* the rest of netw_obj.dual_stack_sockets()
    raised,               \* the exception that left the generator, if any
    n_candidates,         \* history: candidates requested from the pool scan
    n_records,            \* history: records yielded so far
    out,                  \* history: records yielded for netw_obj
    branch,               \* history: branch of the isinstance chain taken
    consulted             \* history: is_valid() was called on netw_obj

vars == <<layer_is_intel, has_KdVersionBlock, is_64bit, NtMajorVersion,
          NtMinorVersion, vers_MinorVersion, show_corrupt_results, pc, version,
          netscan_symbol_table, netw_obj, socks, raised, n_candidates,
          n_records, out, branch, consulted>>

image == <<layer_is_intel, has_KdVersionBlock, is_64bit, NtMajorVersion,
           NtMinorVersion, vers_MinorVersion, show_corrupt_results>>

scanvars == <<netscan_symbol_table, netw_obj, socks, n_candidates, n_records,
              out, branch, consulted>>

-----------------------------------------------------------------------------
(* Bounds of the model. *)

\* kernel major versions 0..MaxMajor
MaxMajor == 11
\* kernel minor versions 0..MaxMinor
MaxMinor == 4
\* build numbers within BuildSlack of each threshold
BuildSlack == 2
\* candidates the pool scan returns in one run
MaxCands == 2

\* thresholds of the build number
Build14393 == 14393
Build15063 == 15063

-----------------------------------------------------------------------------
(* Python values: None, int, str, bool, datetime, UnreadableValue. *)

None == <<"None">>
PyInt(n) == <<"int", n>>
PyStr(s) == <<"str", s>>
PyBool(b) == <<"bool", b>>
PyTime(t) == <<"datetime", t>>
UnreadableValue == <<"UnreadableValue">>

\* truth value testing: None, 0, "" and False are false, all else is true
Truthy(v) ==
    /\ v # None
    /\ v # PyInt(0)
    /\ v # PyStr("")
    /\ v # PyBool(FALSE)

\* a or b
PyOr(a, b) == IF Truthy(a) THEN a ELSE b

DigitChar(d) ==
    CASE d = 0 -> "0" [] d = 1 -> "1" [] d = 2 -> "2" [] d = 3 -> "3"
      [] d = 4 -> "4" [] d = 5 -> "5" [] d = 6 -> "6" [] d = 7 -> "7"
      [] d = 8 -> "8" [] d = 9 -> "9"

RECURSIVE str(_)
\* str(n) of a non-negative int: its decimal digits
str(n) == IF n < 10 THEN DigitChar(n) ELSE str(n \div 10) \o DigitChar(n % 10)

-----------------------------------------------------------------------------
(* NetScan.determine_tcpip_version *)

Arch(is64) == IF is64 THEN "x64" ELSE "x86"

Unbound == "<unbound>"

ClassTypes(nt_major_version, arch) ==
    IF nt_major_version = "10" /\ arch = "x64"
    THEN "win10_x64_class_types"
    ELSE "class_types"

Win10Filename_SeparateX64(vers_minor_version, arch) ==
    IF vers_minor_version < Build14393
    THEN "netscan-win10-" \o arch
    ELSE IF vers_minor_version < Build15063
         THEN "netscan-win10-14393-" \o arch
         ELSE "netscan-win10-15063-" \o arch

Win10Filename(vers_minor_version, arch) ==
    IF vers_minor_version < Build14393
    THEN "netscan-win10-" \o arch
    ELSE IF vers_minor_version < Build15063
         THEN IF arch = "x64"
              THEN "netscan-win10-x64"
              ELSE "netscan-win10-14393-x86"
         ELSE "netscan-win10-15063-" \o arch

Win6Filename_Shifted(nt_minor_version, arch) ==
    IF nt_minor_version = "0" THEN "netscan-vista-" \o arch
    ELSE IF nt_minor_version = "1" THEN "netscan-win7-" \o arch
    ELSE IF nt_minor_version = "2" THEN "netscan-win81-" \o arch
    ELSE IF nt_minor_version = "3" THEN "netscan-win81-" \o arch
    ELSE Unbound

\* no else: for any other minor version the name filename stays unbound
Win6Filename(nt_minor_version, arch) ==
    IF nt_minor_version = "0" THEN "netscan-vista-" \o arch
    ELSE IF nt_minor_version = "1" THEN "netscan-win7-" \o arch
    ELSE IF nt_minor_version = "2" THEN "netscan-win8-" \o arch
    ELSE IF nt_minor_version = "3" THEN "netscan-win81-" \o arch
    ELSE Unbound

Raise(exc) == [status |-> exc, filename |-> "", class_types |-> ""]

Return(filename, class_types) ==
    [status |-> "ok", filename |-> filename, class_types |-> class_types]

NotCalled == [status |-> "not called", filename |-> "", class_types |-> ""]

determine_tcpip_version_NoLayerCheck(is64, intel, kdvb, major, minor, build) ==
    LET arch == Arch(is64)
        nt_major_version == str(major)
        nt_minor_version == str(minor)
        class_types == ClassTypes(nt_major_version, arch)
    IN  IF nt_major_version = "10"
        THEN Return(Win10Filename(build, arch), class_types)
        ELSE IF nt_major_version = "6"
        THEN IF Win6Filename(nt_minor_version, arch) = Unbound
             THEN Raise("UnboundLocalError")
             ELSE Return(Win6Filename(nt_minor_version, arch), class_types)
        ELSE Raise("NameError")

determine_tcpip_version(is64, intel, kdvb, major, minor, build) ==
    LET arch == Arch(is64)
        nt_major_version == str(major)
        nt_minor_version == str(minor)
        class_types == ClassTypes(nt_major_version, arch)
    IN  IF ~intel THEN Raise("TypeError")
        ELSE IF ~kdvb THEN Raise("SymbolError")
        ELSE IF nt_major_version = "10"
        THEN Return(Win10Filename(build, arch), class_types)
        ELSE IF nt_major_version = "6"
        THEN IF Win6Filename(nt_minor_version, arch) = Unbound
             \* line 174 reads filename, which no branch has assigned
             THEN Raise("UnboundLocalError")
             ELSE Return(Win6Filename(nt_minor_version, arch), class_types)
        \* line 172 reads major_version, a name that is defined nowhere
        ELSE Raise("NameError")

-----------------------------------------------------------------------------
(* The objects of volatility.framework.symbols.windows.extensions.network *)

AF_INET == 2
AF_INET6 == 23

\* the table of TCP state codes; every other code is unmapped
TCP_STATE_ENUM == (1 :> "CLOSED") @@ (2 :> "LISTENING") @@ (3 :> "ESTABLISHED")

OwnerPids == {None, PyInt(0), PyInt(4)}
OwnerNames == {None, PyStr(""), PyStr("System")}
CreateTimes == {None, PyTime(1)}
Addresses == {None, PyStr("10.0.0.1")}

\* what the pool scan can return: an object of one of the three types the
\* constraints name (or, should that ever happen, of another type), over
\* memory that may be partly overwritten
Objects ==
    [kind : {"_UDP_ENDPOINT", "_TCP_LISTENER"},
     AddressFamily : {AF_INET, AF_INET6, 0},
     dual : BOOLEAN,
     State : {1}, Port : {80}, RemotePort : {0},
     laddr : {None}, raddr : {None},
     owner : BOOLEAN,
     pid : OwnerPids, procname : OwnerNames, ctime : CreateTimes]
    \cup
    [kind : {"_TCP_ENDPOINT"},
     AddressFamily : {AF_INET, AF_INET6, 0},
     dual : {FALSE},
     State : {1, 2, 255}, Port : {80}, RemotePort : {0, 443},
     laddr : Addresses, raddr : Addresses,
     owner : BOOLEAN,
     pid : OwnerPids, procname : OwnerNames, ctime : CreateTimes]
    \cup
    [kind : {"other"},
     AddressFamily : {AF_INET, 0},
     dual : {FALSE},
     State : {1}, Port : {80}, RemotePort : {0},
     laddr : {None}, raddr : {None},
     owner : BOOLEAN,
     pid : {None}, procname : {None}, ctime : {None}]

NoObject ==
    [kind |-> "none", AddressFamily |-> 0, dual |-> FALSE, State |-> 0,
     Port |-> 0, RemotePort |-> 0, laddr |-> None, raddr |-> None,
     owner |-> FALSE, pid |-> None, procname |-> None, ctime |-> None,
     offset |-> 0]

\* the object found as the n-th candidate, at its offset in the layer
At(o, n) ==
    [kind |-> o.kind, AddressFamily |-> o.AddressFamily, dual |-> o.dual,
     State |-> o.State, Port |-> o.Port, RemotePort |-> o.RemotePort,
     laddr |-> o.laddr, raddr |-> o.raddr, owner |-> o.owner, pid |-> o.pid,
     procname |-> o.procname, ctime |-> o.ctime, offset |-> 4096 * n]

\* netw_obj.is_valid(): strict validation
is_valid(o) ==
    /\ o.AddressFamily \in {AF_INET, AF_INET6}
    /\ o.kind = "_TCP_ENDPOINT" => o.State \in DOMAIN TCP_STATE_ENUM
    /\ o.owner

\* netw_obj.dual_stack_sockets(): one (ver, laddr, raddr) per address family
dual_stack_sockets(o) ==
    LET v4 == <<"v4", PyStr("0.0.0.0"), PyStr("0.0.0.0")>>
        v6 == <<"v6", PyStr("::"), PyStr("::")>>
    IN  IF o.dual THEN <<v4, v6>>
        ELSE IF o.AddressFamily = AF_INET THEN <<v4>>
        ELSE IF o.AddressFamily = AF_INET6 THEN <<v6>>
        ELSE << >>

\* isinstance(netw_obj, network.<cls>): the endpoints inherit from the listener
isinstance(o, cls) ==
    IF cls = "_TCP_LISTENER"
    THEN o.kind \in {"_TCP_LISTENER", "_TCP_ENDPOINT", "_UDP_ENDPOINT"}
    ELSE o.kind = cls

-----------------------------------------------------------------------------
(* NetScan._generator: the records *)

Record(offset, proto, laddr, lport, raddr, rport, state, pid, owner, created) ==
    [Offset |-> offset, Proto |-> proto, LocalAddr |-> laddr,
     LocalPort |-> lport, ForeignAddr |-> raddr, ForeignPort |-> rport,
     State |-> state, PID |-> pid, Owner |-> owner, Created |-> created]

UdpRecord_PortPerFamily(o, sock) ==
    Record(PyInt(o.offset), PyStr("UDP" \o sock[1]), sock[2],
           PyInt(IF sock[1] = "v6" THEN o.Port + 1 ELSE o.Port),
           PyStr("*"), PyInt(0), PyStr(""),
           PyOr(o.pid, UnreadableValue),
           PyOr(o.procname, UnreadableValue),
           PyOr(o.ctime, UnreadableValue))

UdpRecord(o, sock) ==
    Record(PyInt(o.offset), PyStr("UDP" \o sock[1]), sock[2], PyInt(o.Port),
           PyStr("*"), PyInt(0), PyStr(""),
           PyOr(o.pid, UnreadableValue),
           PyOr(o.procname, UnreadableValue),
           PyOr(o.ctime, UnreadableValue))

TcpProto(o) ==
    IF o.AddressFamily = AF_INET THEN "TCPv4"
    ELSE IF o.AddressFamily = AF_INET6 THEN "TCPv6"
    ELSE "TCPv?"

TcpState_BlankDefault(o) ==
    IF o.State \in DOMAIN TCP_STATE_ENUM
    THEN PyStr(TCP_STATE_ENUM[o.State])
    ELSE PyStr("")

TcpState(o) ==
    IF o.State \in DOMAIN TCP_STATE_ENUM
    THEN PyStr(TCP_STATE_ENUM[o.State])
    ELSE UnreadableValue

TcpEndpointRecord(o) ==
    Record(PyInt(o.offset), PyStr(TcpProto(o)),
           PyOr(o.laddr, UnreadableValue), PyInt(o.Port),
           PyOr(o.raddr, UnreadableValue), PyInt(o.RemotePort),
           TcpState(o),
           PyOr(o.pid, UnreadableValue),
           PyOr(o.procname, UnreadableValue),
           PyOr(o.ctime, UnreadableValue))

TcpListenerRecord(o, sock) ==
    Record(PyInt(o.offset), PyStr("TCP" \o sock[1]), sock[2], PyInt(o.Port),
           sock[3], PyInt(0), PyStr("LISTENING"),
           PyOr(o.pid, UnreadableValue),
           PyOr(o.procname, UnreadableValue),
           PyOr(o.ctime, UnreadableValue))

Classify_ListenerFirst(o) ==
    IF isinstance(o, "_TCP_LISTENER") THEN "tcpl"
    ELSE IF isinstance(o, "_UDP_ENDPOINT") THEN "udp"
    ELSE IF isinstance(o, "_TCP_ENDPOINT") THEN "tcpe"
    ELSE "unknown"

\* the if/elif chain: the branch that handles netw_obj
Classify(o) ==
    IF isinstance(o, "_UDP_ENDPOINT") THEN "udp"
    ELSE IF isinstance(o, "_TCP_ENDPOINT") THEN "tcpe"
    ELSE IF isinstance(o, "_TCP_LISTENER") THEN "tcpl"
    ELSE "unknown"

NeedsValidation_Always(show) == TRUE

\* "if not show_corrupt_results:" -- is_valid() is to be consulted
NeedsValidation(show) == ~Truthy(show)

-----------------------------------------------------------------------------
(* The memory image and the plugin's configuration *)

Majors == 0..MaxMajor
Minors == 0..MaxMinor
Builds ==
    ((Build14393 - BuildSlack)..(Build14393 + BuildSlack))
    \cup ((Build15063 - BuildSlack)..(Build15063 + BuildSlack))

\* the kernel versions of the images the generator is run on
ScannedVersions == {<<5, 1, 2600>>, <<6, 1, 7601>>, <<6, 4, 9600>>, <<10, 0, 14393>>}

ShowCorruptOptions == {None, PyBool(FALSE), PyBool(TRUE)}

Fresh ==
    /\ pc = "start"
    /\ version = NotCalled
    /\ netscan_symbol_table = None
    /\ netw_obj = NoObject
    /\ socks = << >>
    /\ raised = ""
    /\ n_candidates = 0
    /\ n_records = 0
    /\ out = << >>
    /\ branch = "none"
    /\ consulted = FALSE

\* every image of the bounded version space, before the version is resolved
InitVersion ==
    /\ layer_is_intel \in BOOLEAN
    /\ has_KdVersionBlock \in BOOLEAN
    /\ is_64bit \in BOOLEAN
    /\ NtMajorVersion \in Majors
    /\ NtMinorVersion \in Minors
    /\ vers_MinorVersion \in Builds
    /\ show_corrupt_results = None
    /\ Fresh

\* the generator object run() hands to the TreeGrid: nothing has run yet
Init ==
    /\ layer_is_intel \in BOOLEAN
    /\ has_KdVersionBlock \in BOOLEAN
    /\ is_64bit \in BOOLEAN
    /\ \E v \in ScannedVersions :
        /\ NtMajorVersion = v[1]
        /\ NtMinorVersion = v[2]
        /\ vers_MinorVersion = v[3]
    /\ show_corrupt_results \in ShowCorruptOptions
    /\ Fresh

-----------------------------------------------------------------------------
(* NetScan._generator: the steps *)

\* create_netscan_symbol_table calls determine_tcpip_version; an exception
\* leaves the generator
DetermineTcpipVersion ==
    /\ pc = "start"
    /\ version' = determine_tcpip_version(is_64bit, layer_is_intel,
                      has_KdVersionBlock, NtMajorVersion, NtMinorVersion,
                      vers_MinorVersion)
    /\ IF version'.status = "ok"
       THEN pc' = "resolved" /\ raised' = ""
       ELSE pc' = "raised" /\ raised' = version'.status
    /\ UNCHANGED <<image, scanvars>>

\* IntermediateSymbolTable.create(..., symbol_filename, class_types, ...)
CreateSymbolTable ==
    /\ pc = "resolved"
    /\ netscan_symbol_table' = PyStr(version.filename)
    /\ pc' = "scan"
    /\ UNCHANGED <<image, version, raised, netw_obj, socks, n_candidates,
                   n_records, out, branch, consulted>>

\* the for loop asks the pool scan for its next object
ScanNext ==
    /\ pc = "scan"
    /\ n_candidates < MaxCands
    /\ \E o \in Objects : netw_obj' = At(o, n_candidates + 1)
    /\ n_candidates' = n_candidates + 1
    /\ socks' = << >>
    /\ out' = << >>
    /\ branch' = "none"
    /\ consulted' = FALSE
    /\ pc' = "filter"
    /\ UNCHANGED <<image, version, raised, netscan_symbol_table, n_records>>

\* the pool scan has no more objects: the generator returns
ScanExhausted ==
    /\ pc = "scan"
    /\ pc' = "done"
    /\ UNCHANGED <<image, version, raised, scanvars>>

\* "if not show_corrupt_results: if not netw_obj.is_valid(): continue"
Filter ==
    /\ pc = "filter"
    /\ IF NeedsValidation(show_corrupt_results)
       THEN /\ consulted' = TRUE
            /\ pc' = IF is_valid(netw_obj) THEN "classify" ELSE "end"
       ELSE /\ consulted' = consulted
            /\ pc' = "classify"
    /\ UNCHANGED <<image, version, raised, netscan_symbol_table, netw_obj,
                   socks, n_candidates, n_records, out, branch>>

\* the isinstance chain; the two loops start iterating dual_stack_sockets()
ClassifyObject ==
    /\ pc = "classify"
    /\ branch' = Classify(netw_obj)
    /\ socks' = IF branch' \in {"udp", "tcpl"}
                THEN dual_stack_sockets(netw_obj)
                ELSE << >>
    /\ pc' = IF branch' = "unknown" THEN "end" ELSE branch'
    /\ UNCHANGED <<image, version, raised, netscan_symbol_table, netw_obj,
                   n_candidates, n_records, out, consulted>>

YieldUdp ==
    /\ pc = "udp"
    /\ socks # << >>
    /\ out' = Append(out, UdpRecord(netw_obj, Head(socks)))
    /\ socks' = Tail(socks)
    /\ n_records' = n_records + 1
    /\ UNCHANGED <<image, version, raised, netscan_symbol_table, netw_obj,
                   n_candidates, branch, consulted, pc>>

YieldTcpEndpoint ==
    /\ pc = "tcpe"
    /\ out' = Append(out, TcpEndpointRecord(netw_obj))
    /\ n_records' = n_records + 1
    /\ pc' = "end"
    /\ UNCHANGED <<image, version, raised, netscan_symbol_table, netw_obj,
                   socks, n_candidates, branch, consulted>>

YieldTcpListener ==
    /\ pc = "tcpl"
    /\ socks # << >>
    /\ out' = Append(out, TcpListenerRecord(netw_obj, Head(socks)))
    /\ socks' = Tail(socks)
    /\ n_records' = n_records + 1
    /\ UNCHANGED <<image, version, raised, netscan_symbol_table, netw_obj,
                   n_candidates, branch, consulted, pc>>

\* dual_stack_sockets() is used up: the loop body is over
EndSockets ==
    /\ pc \in {"udp", "tcpl"}
    /\ socks = << >>
    /\ pc' = "end"
    /\ UNCHANGED <<image, version, raised, scanvars>>

\* back to the head of the for loop; nothing of the object just handled is
\* read again
NextIteration ==
    /\ pc = "end"
    /\ pc' = "scan"
    /\ netw_obj' = NoObject
    /\ socks' = << >>
    /\ out' = << >>
    /\ branch' = "none"
    /\ consulted' = FALSE
    /\ UNCHANGED <<image, version, raised, netscan_symbol_table, n_candidates,
                   n_records>>

Next ==
    \/ DetermineTcpipVersion
    \/ CreateSymbolTable
    \/ ScanNext
    \/ ScanExhausted
    \/ Filter
    \/ ClassifyObject
    \/ YieldUdp
    \/ YieldTcpEndpoint
    \/ YieldTcpListener
    \/ EndSockets
    \/ NextIteration

Spec == Init /\ [][Next]_vars

NextVersion == DetermineTcpipVersion

SpecVersion == InitVersion /\ [][NextVersion]_vars

-----------------------------------------------------------------------------
(* Properties of determine_tcpip_version, checked under SpecVersion *)

Returned == pc = "resolved"
Called == pc # "start"
ArchOfImage == Arch(is_64bit)
Between14393And15063 ==
    Build14393 <= vers_MinorVersion /\ vers_MinorVersion < Build15063

\* C1, as claimed: for major version 10 the layout follows the build number,
\* and on x64 a build in [14393, 15063) gets a 14393 layout that is not the
\* layout of the builds below 14393.
C1_Win10X64Has14393Layout ==
    (Returned /\ NtMajorVersion = 10) =>
        /\ vers_MinorVersion < Build14393 =>
               version.filename = "netscan-win10-" \o ArchOfImage
        /\ (Between14393And15063 /\ ~is_64bit) =>
               version.filename = "netscan-win10-14393-x86"
        /\ (Between14393And15063 /\ is_64bit) =>
               version.filename # "netscan-win10-x64"
        /\ vers_MinorVersion >= Build15063 =>
               version.filename = "netscan-win10-15063-" \o ArchOfImage

\* C1, amended: for major version 10 the layout follows the build number;
\* on x64 a build in [14393, 15063) gets the very layout of the x64 builds
\* below 14393 (netscan-win10-x64), only x86 has a layout of its own there.
C1_Win10LayoutByBuild ==
    (Returned /\ NtMajorVersion = 10) =>
        /\ vers_MinorVersion < Build14393 =>
               version.filename = "netscan-win10-" \o ArchOfImage
        /\ (Between14393And15063 /\ ~is_64bit) =>
               version.filename = "netscan-win10-14393-x86"
        /\ (Between14393And15063 /\ is_64bit) =>
               version.filename = "netscan-win10-x64"
        /\ vers_MinorVersion >= Build15063 =>
               version.filename = "netscan-win10-15063-" \o ArchOfImage

C1_Witness ==
    /\ Returned
    /\ NtMajorVersion = 10
    /\ is_64bit
    /\ Between14393And15063
    /\ version.filename = "netscan-win10-x64"

\* C2: for a major version other than 6 and 10 (the layer and the symbol
\* being fine) a fallback name made of the major version and the
\* architecture is returned, with the default class types.
C2_FallbackReturned ==
    (Called /\ layer_is_intel /\ has_KdVersionBlock
        /\ NtMajorVersion \notin {6, 10}) =>
        /\ version.status = "ok"
        /\ version.filename =
               "netscan-win" \o str(NtMajorVersion) \o "-" \o ArchOfImage
        /\ version.class_types = "class_types"

\* C3: the call returns, or fails with one of exactly two errors: the layer
\* is of the wrong kind, or the version-block symbol is not resolved.
C3_OnlyTwoFailures ==
    Called => version.status \in {"ok", "TypeError", "SymbolError"}

Win6Name(minor) ==
    CASE minor = 0 -> "vista" [] minor = 1 -> "win7"
      [] minor = 2 -> "win8" [] minor = 3 -> "win81"

\* C4: for major version 6 the minor version alone picks the layout (0 vista,
\* 1 win7, 2 win8, 3 win81), suffixed with the architecture, whatever the
\* build number is.
C4_Win6LayoutByMinor ==
    (Called /\ layer_is_intel /\ has_KdVersionBlock /\ NtMajorVersion = 6
        /\ NtMinorVersion \in 0..3) =>
        /\ version.status = "ok"
        /\ version.filename =
               "netscan-" \o Win6Name(NtMinorVersion) \o "-" \o ArchOfImage

C4_Witness ==
    /\ Returned
    /\ NtMajorVersion = 6
    /\ NtMinorVersion = 1
    /\ is_64bit
    /\ vers_MinorVersion > Build14393
    /\ version.filename = "netscan-win7-x64"

-----------------------------------------------------------------------------
(* Properties of _generator, checked under Spec *)

Strict == ~Truthy(show_corrupt_results)
Permissive == show_corrupt_results = PyBool(TRUE)
HasObject == netw_obj.kind # "none"
Records == {out[i] : i \in DOMAIN out}

\* C5: a failure of the layer check or of the symbol lookup leaves the
\* generator before the pool scan is asked for anything; a candidate is only
\* ever requested after the version is resolved and the symbol table made,
\* and a run whose resolution fails yields no record.
C5_ResolvedBeforeScan ==
    /\ (n_candidates > 0 \/ pc \notin {"start", "resolved", "raised"}) =>
           (version.status = "ok" /\ netscan_symbol_table # None)
    /\ (Called /\ ~(layer_is_intel /\ has_KdVersionBlock)) =>
           /\ pc = "raised"
           /\ raised = IF ~layer_is_intel THEN "TypeError" ELSE "SymbolError"
    /\ pc = "raised" =>
           (n_candidates = 0 /\ n_records = 0 /\ ~HasObject /\ out = << >>)

C5_Witness ==
    /\ pc = "raised"
    /\ ~has_KdVersionBlock
    /\ raised = "SymbolError"

KindBranch(kind) ==
    CASE kind = "_UDP_ENDPOINT" -> "udp"
      [] kind = "_TCP_ENDPOINT" -> "tcpe"
      [] kind = "_TCP_LISTENER" -> "tcpl"
      [] OTHER -> "unknown"

\* C6: an object that passed the filter is handled by the one branch of its
\* own kind; a TCP endpoint is never rendered by the listener branch (state
\* "LISTENING", remote port 0 whatever the object holds); an object of none
\* of the three kinds yields nothing and the loop goes on.
C6_OneBranchPerKind ==
    /\ branch # "none" => branch = KindBranch(netw_obj.kind)
    /\ pc \in {"udp", "tcpe", "tcpl"} => pc = branch
    /\ netw_obj.kind = "_TCP_ENDPOINT" =>
           \A r \in Records :
               /\ r.ForeignPort = PyInt(netw_obj.RemotePort)
               /\ r.State = PyStr("LISTENING") =>
                      (netw_obj.State \in DOMAIN TCP_STATE_ENUM
                          /\ TCP_STATE_ENUM[netw_obj.State] = "LISTENING")
    /\ branch = "unknown" => (out = << >> /\ pc = "end" /\ raised = "")

C6_Witness ==
    /\ netw_obj.kind = "_TCP_ENDPOINT"
    /\ netw_obj.State = 2
    /\ netw_obj.RemotePort = 443
    /\ branch = "tcpe"
    /\ pc = "end"
    /\ Len(out) = 1
    /\ out[1].ForeignPort = PyInt(443)

\* C7: with include-corrupt off or unset, an object whose is_valid() is false
\* yields no record and the loop goes on to the next object; with it on,
\* is_valid() is never called and every object reaches the isinstance chain.
C7_FilterFollowsOption ==
    /\ (Strict /\ HasObject /\ ~is_valid(netw_obj)) =>
           /\ out = << >>
           /\ branch = "none"
           /\ pc \in {"filter", "end"}
           /\ pc = "end" => consulted
    /\ (Strict /\ HasObject /\ pc # "filter") => consulted
    /\ Permissive =>
           /\ ~consulted
           /\ (HasObject /\ pc # "filter") =>
                  (pc = "classify" \/ branch # "none")

C7_Witness ==
    /\ show_corrupt_results = None
    /\ HasObject
    /\ ~is_valid(netw_obj)
    /\ consulted
    /\ pc = "end"
    /\ n_candidates < MaxCands

\* C8: a TCP endpoint whose state code is not in the state table is only
\* ever rendered with the unreadable marker as its state; in strict mode it
\* yields no record, in permissive mode exactly one.
C8_UnmappedStateUnreadable ==
    (netw_obj.kind = "_TCP_ENDPOINT"
        /\ netw_obj.State \notin DOMAIN TCP_STATE_ENUM) =>
        /\ \A r \in Records : r.State = UnreadableValue
        /\ Strict => out = << >>
        /\ (Permissive /\ pc = "end") => Len(out) = 1

C8_Witness ==
    /\ Permissive
    /\ netw_obj.kind = "_TCP_ENDPOINT"
    /\ netw_obj.State = 255
    /\ pc = "end"
    /\ Len(out) = 1
    /\ out[1].State = UnreadableValue

SameButProtoAndAddress(r1, r2) ==
    /\ r1.Offset = r2.Offset
    /\ r1.LocalPort = r2.LocalPort
    /\ r1.ForeignPort = r2.ForeignPort
    /\ r1.State = r2.State
    /\ r1.PID = r2.PID
    /\ r1.Owner = r2.Owner
    /\ r1.Created = r2.Created

FieldFaithful(rendered, read) ==
    /\ rendered = UnreadableValue <=> read = None
    /\ read # None => rendered = read

\* C10: in every record owner pid, owner name and creation time are the
\* unreadable marker exactly when the field could not be read; a value that
\* was read, be it 0 or empty, is rendered as that value.
C10_MarkerOnlyWhenUnread ==
    \A r \in Records :
        /\ FieldFaithful(r.PID, netw_obj.pid)
        /\ FieldFaithful(r.Owner, netw_obj.procname)
        /\ FieldFaithful(r.Created, netw_obj.ctime)

====
